---- MODULE Spec2Model ----
(***************************************************************************)
(* VSplitter: main.py plans one stream-copy extraction job per clip of     *)
(* every source file of split_config.json and runs all jobs with           *)
(* asyncio.gather; ffmpeg_setup.py locates or downloads the ffmpeg binary. *)
(*                                                                         *)
(* Python lists are 0-based, sequences here are 1-based: clip i of the     *)
(* model is clip i-1 of the code.                                          *)
(***************************************************************************)
EXTENDS Naturals, Sequences, FiniteSets, TLC

VARIABLES
    pc,           \* where main() is: "start", "read_config", "loop", "gather" (suspended in
                  \* the await), "finished" (the loop winds down), "ended" (asyncio.run is over)
    ffmpeg_path,  \* main.py:36, the value ensure_ffmpeg() returned ("" before)
    on_path,      \* the environment: shutil.which('ffmpeg') finds a binary
    config,       \* splits_config['source_files'], the object json.load built
    loaded,       \* history: the source files as they were when loaded
    src_idx,      \* the source the outer loop (main.py:48) is at
    clip_idx,     \* the clip the inner loop (main.py:57) is at; 0: fix_intervals not called yet
    tasks,        \* main.py:39, the build_clip coroutines, as their arguments
    task,         \* per launched coroutine: its asyncio task and its ffmpeg process
    ready,        \* the event loop's FIFO of callbacks that are ready to run
    ntodo,        \* callbacks left in the event loop's current iteration
    stopping,     \* the loop was told to stop (main() is done)
    outer,        \* the future gather returned: its state and the child whose exception it holds
    nfinished,    \* gather's count of children that finished
    first_failed, \* history: the first job whose task failed (0: none yet)
    main_exc,     \* the exception main() ended with, and the job that raised it (0: no job)
    result        \* "running", "returned", "raised"

vars == <<pc, ffmpeg_path, on_path, config, loaded, src_idx, clip_idx, tasks,
          task, ready, ntodo, stopping, outer, nfinished, first_failed, main_exc, result>>

planVars == <<config, loaded, src_idx, clip_idx, tasks>>
loopVars == <<task, ready, ntodo, stopping, outer, nfinished, first_failed>>

(***************************************************************************)
(* Bounds of the model.                                                    *)
(***************************************************************************)
\* clips of a whole configuration (all its sources) in the full run
MaxJobs == 2
\* clips of a whole configuration (all its sources) in the planning run
MaxClips == 4

\* the timestamps a configuration of the planning run is written with
Timestamps == {"00:00:05", "00:00:09"}
\* the timestamps a configuration of the full run is written with
RunTimestamps == {"00:00:05"}
\* the source files of a configuration, as path components split at '.'
SourcePaths == << <<"talk", "mp4">>, <<"demo", "mkv">> >>
OutputDir == "out"

Last(s) == s[Len(s)]

(***************************************************************************)
(* ffmpeg_setup.py                                                         *)
(***************************************************************************)
WhichPath == "/usr/bin/ffmpeg"
LocalWindows == "ffmpeg_bin/bin/ffmpeg.exe"
LocalOther == "ffmpeg_bin/ffmpeg"

\* what the machine looks like to FFmpegSetup
Envs ==
    [which : BOOLEAN,            \* shutil.which('ffmpeg') finds a binary
     local : BOOLEAN,            \* the ffmpeg_bin binary exists already
     system : {"windows", "linux", "darwin", "freebsd"},
     machine : {"x86_64", "aarch64", "riscv64"},
     download_ok : BOOLEAN,      \* urlretrieve and the extraction succeed
     binary_in_archive : BOOLEAN \* the archive holds the ffmpeg binary
    ]

LocalFFmpeg(env) == IF env.system = "windows" THEN LocalWindows ELSE LocalOther

\* the path is_ffmpeg_installed sets; "" when it returns False
is_ffmpeg_installed(env) ==
    IF env.which THEN WhichPath
    ELSE IF env.local THEN LocalFFmpeg(env)
    ELSE ""

\* "raise": no build for this platform; otherwise the archive's kind
get_download_url(env) ==
    IF env.system = "windows" THEN "zip"
    ELSE IF env.system = "linux" THEN
        IF env.machine \in {"x86_64", "aarch64"} THEN "tar.xz" ELSE "raise"
    ELSE IF env.system = "darwin" THEN "zip"
    ELSE "raise"

\* the path download_ffmpeg leaves in self.ffmpeg_path: "raise" when it raises,
\* "" when the archive was extracted and no binary was found in it
download_ffmpeg(env) ==
    IF get_download_url(env) = "raise" THEN "raise"
    ELSE IF ~env.download_ok THEN "raise"
    ELSE IF get_download_url(env) = "zip" THEN
        IF env.system \in {"windows", "darwin"} /\ env.binary_in_archive
        THEN LocalFFmpeg(env) ELSE ""
    ELSE IF env.binary_in_archive THEN LocalOther ELSE ""

\* FFmpegSetup.setup: the path, or "raise"
setup(env) ==
    LET found == is_ffmpeg_installed(env)
        path == IF found = "" THEN download_ffmpeg(env) ELSE found
    IN  IF path = "" THEN "raise" ELSE path

\* ensure_ffmpeg: setup(), then get_ffmpeg_command() gives str(self.ffmpeg_path)
ensure_ffmpeg(env) == setup(env)

(***************************************************************************)
(* main.py: fix_intervals                                                  *)
(***************************************************************************)
\* a variant of PrevEnd: prev_interval[0], the previous clip's start
PrevEndTakesStart(prev_interval) == prev_interval[1]

\* main.py:24, prev_interval[-1]
PrevEnd(prev_interval) == prev_interval[Len(prev_interval)]

\* a variant of FixOne without the in-between branch: only the first clip is fixed
FixOneFirstOnly(i, n, interval, prev_interval) ==
    IF Len(interval) = 1 /\ i = 1 THEN <<"00:00:00">> \o interval ELSE interval

\* a variant of FixOne that tests the last position before the first
FixOneLastFirst(i, n, interval, prev_interval) ==
    IF Len(interval) = 1 THEN
        IF i = n THEN interval
        ELSE IF i = 1 THEN <<"00:00:00">> \o interval
        ELSE <<prev_interval[Len(prev_interval)]>> \o interval
    ELSE interval

\* a variant of FixOne that appends the synthesized timestamp instead of
\* inserting it at the front
FixOneAppends(i, n, interval, prev_interval) ==
    IF Len(interval) = 1 THEN
        IF i = 1 THEN interval \o <<"00:00:00">>
        ELSE IF i = n THEN interval
        ELSE interval \o <<prev_interval[Len(prev_interval)]>>
    ELSE interval

\* main.py:17-25, what one pass of the loop leaves in clip i's interval list
FixOne(i, n, interval, prev_interval) ==
    IF Len(interval) = 1 THEN
        IF i = 1 THEN <<"00:00:00">> \o interval
        ELSE IF i = n THEN interval
        ELSE <<PrevEnd(prev_interval)>> \o interval
    ELSE interval

\* main.py:15
IntervalAssert(interval) == 0 < Len(interval) /\ Len(interval) < 3

\* the loop of fix_intervals from clip i on, over the list it mutates in place
RECURSIVE FixFrom(_, _)
FixFrom(clip_ranges, i) ==
    IF i > Len(clip_ranges) THEN [clip_ranges |-> clip_ranges, raised |-> FALSE]
    ELSE
        LET interval == clip_ranges[i][2]
            prev_interval == clip_ranges[i - 1][2]
        IN  IF ~IntervalAssert(interval)
            THEN [clip_ranges |-> clip_ranges, raised |-> TRUE]
            ELSE FixFrom([clip_ranges EXCEPT ![i][2] =
                             FixOne(i, Len(clip_ranges), interval, prev_interval)],
                         i + 1)

\* a variant of fix_intervals that cuts an interval of more than two timestamps
\* to its first two instead of rejecting it
fix_intervals_truncating(clip_ranges) ==
    FixFrom([i \in DOMAIN clip_ranges |->
                <<clip_ranges[i][1],
                  IF Len(clip_ranges[i][2]) > 2
                  THEN SubSeq(clip_ranges[i][2], 1, 2) ELSE clip_ranges[i][2]>>], 1)

\* fix_intervals: the list as the call leaves it, and whether it raised
fix_intervals(clip_ranges) == FixFrom(clip_ranges, 1)

(***************************************************************************)
(* main.py: the configurations split_config.json may hold                  *)
(***************************************************************************)
\* the interval lists of a configuration written with the timestamps T: the
\* empty one, all of one and of two timestamps, and some of three
Intervals(T) ==
    {<<>>} \cup {<<t>> : t \in T} \cup {<<t, u>> : t \in T, u \in T}
           \cup {<<t, t, t>> : t \in T}

ClipName(i) == "clip" \o ToString(i)

\* a clip_ranges list: [name, interval] pairs, the intervals given by f
ClipRanges(f) == [i \in DOMAIN f |-> <<ClipName(i), f[i]>>]

Source(k, clip_ranges) == [path |-> SourcePaths[k], clip_ranges |-> clip_ranges]

\* the source_files of a configuration of k sources with intervals f1 and f2
SourceFiles(k, f1, f2) ==
    IF k = 0 THEN <<>>
    ELSE IF k = 1 THEN <<Source(1, ClipRanges(f1))>>
    ELSE <<Source(1, ClipRanges(f1)), Source(2, ClipRanges(f2))>>

(***************************************************************************)
(* main.py: main, up to the gather                                         *)
(***************************************************************************)
Init ==
    /\ pc = "start"
    /\ ffmpeg_path = ""
    /\ on_path = FALSE
    /\ config = <<>>
    /\ loaded = <<>>
    /\ src_idx = 1
    /\ clip_idx = 0
    /\ tasks = <<>>
    /\ task = <<>>
    /\ ready = <<>>
    /\ ntodo = 0
    /\ stopping = FALSE
    /\ outer = [state |-> "none", job |-> 0]
    /\ nfinished = 0
    /\ first_failed = 0
    /\ main_exc = [type |-> "none", job |-> 0]
    /\ result = "running"

\* the planning run starts where main() has located ffmpeg on the PATH
InitPlan ==
    /\ pc = "read_config"
    /\ ffmpeg_path = WhichPath
    /\ on_path = TRUE
    /\ config = <<>>
    /\ loaded = <<>>
    /\ src_idx = 1
    /\ clip_idx = 0
    /\ tasks = <<>>
    /\ task = <<>>
    /\ ready = <<>>
    /\ ntodo = 0
    /\ stopping = FALSE
    /\ outer = [state |-> "none", job |-> 0]
    /\ nfinished = 0
    /\ first_failed = 0
    /\ main_exc = [type |-> "none", job |-> 0]
    /\ result = "running"

\* main() raises before the gather: asyncio.run re-raises, no task was created
Raise(exc) ==
    /\ pc' = "ended"
    /\ result' = "raised"
    /\ main_exc' = [type |-> exc, job |-> 0]

\* main.py:36
EnsureFFmpeg ==
    /\ pc = "start"
    /\ \E env \in Envs :
        IF ensure_ffmpeg(env) = "raise"
        THEN /\ Raise("Exception: ffmpeg setup")
             /\ on_path' = env.which
             /\ UNCHANGED ffmpeg_path
        ELSE /\ ffmpeg_path' = ensure_ffmpeg(env)
             /\ on_path' = env.which
             /\ pc' = "read_config"
             /\ UNCHANGED <<result, main_exc>>
    /\ UNCHANGED <<planVars, loopVars>>

\* main.py:42-46: json.load yields any configuration of up to Len(SourcePaths)
\* sources that hold at most m clips together, written with the timestamps T
ReadConfig(m, T) ==
    /\ pc = "read_config"
    /\ \E k \in 0..Len(SourcePaths), n1 \in 0..m :
        \E n2 \in 0..(m - n1) :
            /\ k = 0 => n1 = 0
            /\ k < 2 => n2 = 0
            /\ \E f1 \in [1..n1 -> Intervals(T)], f2 \in [1..n2 -> Intervals(T)] :
                /\ config' = SourceFiles(k, f1, f2)
                /\ loaded' = SourceFiles(k, f1, f2)
    /\ pc' = "loop"
    /\ src_idx' = 1
    /\ clip_idx' = 0
    /\ UNCHANGED <<ffmpeg_path, on_path, tasks, loopVars, main_exc, result>>

\* main.py:48-55: the next source; fix_intervals mutates its clip_ranges in place
FixIntervals ==
    /\ pc = "loop"
    /\ src_idx <= Len(config)
    /\ clip_idx = 0
    /\ LET fixed == fix_intervals(config[src_idx].clip_ranges)
       IN  /\ config' = [config EXCEPT ![src_idx].clip_ranges = fixed.clip_ranges]
           /\ IF fixed.raised
              THEN /\ Raise("AssertionError: fix_intervals")
                   /\ UNCHANGED <<src_idx, clip_idx>>
              ELSE IF fixed.clip_ranges = <<>>
              THEN /\ src_idx' = src_idx + 1
                   /\ UNCHANGED <<clip_idx, pc, result, main_exc>>
              ELSE /\ clip_idx' = 1
                   /\ UNCHANGED <<src_idx, pc, result, main_exc>>
    /\ UNCHANGED <<ffmpeg_path, on_path, loaded, tasks, loopVars>>

\* a variant of BuildOptions that sets 'to' without testing end
BuildOptionsAlwaysTo(start, end) ==
    ("codec:v" :> "copy") @@ ("codec:a" :> "copy") @@ ("ss" :> start) @@ ("to" :> end)

\* main.py:61, 73-75
BuildOptions(start, end) ==
    LET base == ("codec:v" :> "copy") @@ ("codec:a" :> "copy") @@ ("ss" :> start)
    IN  IF end # "" THEN base @@ ("to" :> end) ELSE base

\* main.py:67-71: <<start, end>>, or <<>> when the two-value unpacking fails
Unpack(i, n, interval) ==
    IF i = n /\ Len(interval) = 1 THEN <<interval[1], "">>
    ELSE IF Len(interval) = 2 THEN <<interval[1], interval[2]>>
    ELSE <<>>

\* main.py:59
PlanAssert(interval) == 0 < Len(interval) /\ Len(interval) < 3

\* main.py:64-65 and 77: the arguments of the build_clip coroutine
Job(source_path, name, start, end) ==
    [source_path |-> source_path,
     file_output_path |-> <<OutputDir, name, Last(source_path)>>,
     config |-> BuildOptions(start, end)]

\* main.py:57-77: one pass of the inner loop
PlanClip ==
    /\ pc = "loop"
    /\ src_idx <= Len(config)
    /\ clip_idx >= 1
    /\ LET source == config[src_idx]
           n == Len(source.clip_ranges)
           name == source.clip_ranges[clip_idx][1]
           interval == source.clip_ranges[clip_idx][2]
           se == Unpack(clip_idx, n, interval)
       IN  IF ~PlanAssert(interval)
           THEN /\ Raise("AssertionError: main")
                /\ UNCHANGED <<tasks, src_idx, clip_idx>>
           ELSE IF se = <<>>
           THEN /\ Raise("ValueError: unpack")
                /\ UNCHANGED <<tasks, src_idx, clip_idx>>
           ELSE /\ tasks' = Append(tasks, Job(source.path, name, se[1], se[2]))
                /\ IF clip_idx = n
                   THEN src_idx' = src_idx + 1 /\ clip_idx' = 0
                   ELSE clip_idx' = clip_idx + 1 /\ UNCHANGED src_idx
                /\ UNCHANGED <<pc, result, main_exc>>
    /\ UNCHANGED <<ffmpeg_path, on_path, config, loaded, loopVars>>

(***************************************************************************)
(* main.py:79-82: asyncio.gather under asyncio.run.  The event loop runs   *)
(* its ready callbacks first in, first out, one iteration at a time: an    *)
(* iteration runs the callbacks that were ready when it began.             *)
(***************************************************************************)
\* main.py:30: FFmpeg() is built without an executable, which is then "ffmpeg"
DefaultExecutable == "ffmpeg"

\* the binary the operating system runs for a command: a bare name is looked
\* up on the PATH ("ENOENT": not found), a path is taken as it is
ResolveExecutable(cmd, onpath) ==
    IF cmd = DefaultExecutable THEN (IF onpath THEN WhichPath ELSE "ENOENT")
    ELSE cmd

\* a variant of GatherHandles that starts the coroutines one after the other:
\* only the first is scheduled
GatherHandlesFirstOnly(n) == IF n = 0 THEN <<>> ELSE << <<"step", 1>> >>

\* main.py:79: gather wraps every coroutine in a task, and a new task
\* schedules its first step
GatherHandles(n) == [i \in 1..n |-> <<"step", i>>]

NewTask == [state |-> "created", attempted |-> FALSE, exe |-> "", reported |-> FALSE]

\* main.py:79: the outer loop is over; main() awaits the gather of all tasks
Gather ==
    /\ pc = "loop"
    /\ src_idx > Len(config)
    /\ IF tasks = <<>>
       THEN \* gather() of nothing is done already: main() returns at once
            /\ pc' = "ended"
            /\ result' = "returned"
            /\ outer' = [state |-> "result", job |-> 0]
            /\ UNCHANGED <<task, ready>>
       ELSE /\ pc' = "gather"
            /\ task' = [i \in 1..Len(tasks) |-> NewTask]
            /\ ready' = ready \o GatherHandles(Len(tasks))
            /\ outer' = [state |-> "pending", job |-> 0]
            /\ UNCHANGED result
    /\ UNCHANGED <<ffmpeg_path, on_path, planVars, ntodo, stopping, nfinished,
                   first_failed, main_exc>>

\* main.py:29-31: a step of the task of build_clip(*tasks[i])
TaskStep(i) ==
    IF task[i].state = "created" THEN
        \* up to the await: execute() spawns the tool
        LET exe == ResolveExecutable(DefaultExecutable, on_path)
        IN  IF exe = "ENOENT"
            THEN /\ task' = [task EXCEPT ![i].state = "failed", ![i].attempted = TRUE,
                                         ![i].exe = exe]
                 /\ ready' = Append(Tail(ready), <<"done", i>>)
                 /\ first_failed' = IF first_failed = 0 THEN i ELSE first_failed
            ELSE /\ task' = [task EXCEPT ![i].state = "running", ![i].attempted = TRUE,
                                         ![i].exe = exe]
                 /\ ready' = Tail(ready)
                 /\ UNCHANGED first_failed
    ELSE IF task[i].state = "exited_ok" THEN
        \* execute() returns; line 31 prints "... was built sucessfully."
        /\ task' = [task EXCEPT ![i].state = "succeeded", ![i].reported = TRUE]
        /\ ready' = Append(Tail(ready), <<"done", i>>)
        /\ UNCHANGED first_failed
    ELSE
        \* "exited_fail": execute() raises
        /\ task' = [task EXCEPT ![i].state = "failed"]
        /\ ready' = Append(Tail(ready), <<"done", i>>)
        /\ first_failed' = IF first_failed = 0 THEN i ELSE first_failed

\* a variant of DoneCallback that counts a failed child as finished, as
\* return_exceptions=True would
DoneCallbackKeepsExceptions(i) ==
    IF outer.state # "pending" THEN
        /\ ready' = Tail(ready)
        /\ UNCHANGED <<outer, nfinished>>
    ELSE
        /\ nfinished' = nfinished + 1
        /\ IF nfinished + 1 = Len(task)
           THEN /\ outer' = [state |-> "result", job |-> 0]
                /\ ready' = Append(Tail(ready), <<"main", 0>>)
           ELSE /\ ready' = Tail(ready)
                /\ UNCHANGED outer

\* main.py:79: gather's callback on child i being done (return_exceptions=False)
DoneCallback(i) ==
    IF outer.state # "pending" THEN
        /\ ready' = Tail(ready)
        /\ UNCHANGED <<outer, nfinished>>
    ELSE IF task[i].state = "failed" THEN
        /\ outer' = [state |-> "exception", job |-> i]
        /\ ready' = Append(Tail(ready), <<"main", 0>>)
        /\ UNCHANGED nfinished
    ELSE
        /\ nfinished' = nfinished + 1
        /\ IF nfinished + 1 = Len(task)
           THEN /\ outer' = [state |-> "result", job |-> 0]
                /\ ready' = Append(Tail(ready), <<"main", 0>>)
           ELSE /\ ready' = Tail(ready)
                /\ UNCHANGED outer

\* the exception a failed task holds
TaskException(i) ==
    [type |-> IF task[i].exe = "ENOENT" THEN "FileNotFoundError" ELSE "FFmpegError",
     job |-> i]

\* the event loop runs the callback at the head of its ready queue
RunHandle ==
    /\ pc \in {"gather", "finished"}
    /\ ready # <<>>
    /\ ntodo > 0 \/ ~stopping
    /\ ntodo' = (IF ntodo = 0 THEN Len(ready) ELSE ntodo) - 1
    /\ LET h == Head(ready)
       IN  CASE h[1] = "step" ->
                  /\ TaskStep(h[2])
                  /\ UNCHANGED <<pc, stopping, outer, nfinished, main_exc, result>>
             [] h[1] = "done" ->
                  /\ DoneCallback(h[2])
                  /\ UNCHANGED <<pc, task, stopping, first_failed, main_exc, result>>
             [] h[1] = "main" ->
                  \* main.py:79: the await ends; main() returns or raises
                  /\ pc' = "finished"
                  /\ IF outer.state = "exception"
                     THEN /\ result' = "raised"
                          /\ main_exc' = TaskException(outer.job)
                     ELSE /\ result' = "returned"
                          /\ UNCHANGED main_exc
                  /\ ready' = Append(Tail(ready), <<"stop", 0>>)
                  /\ UNCHANGED <<task, stopping, outer, nfinished, first_failed>>
             [] h[1] = "stop" ->
                  \* main.py:82: run_until_complete's callback stops the loop
                  /\ stopping' = TRUE
                  /\ ready' = Tail(ready)
                  /\ UNCHANGED <<pc, task, outer, nfinished, first_failed, main_exc, result>>
    /\ UNCHANGED <<ffmpeg_path, on_path, planVars>>

\* the tool's process of job i exits, with or without success
ProcExit(i, ok) ==
    /\ pc \in {"gather", "finished"}
    /\ i \in DOMAIN task
    /\ task[i].state = "running"
    /\ task' = [task EXCEPT ![i].state = IF ok THEN "exited_ok" ELSE "exited_fail"]
    /\ ready' = Append(ready, <<"step", i>>)
    /\ UNCHANGED <<pc, ffmpeg_path, on_path, planVars, ntodo, stopping, outer,
                   nfinished, first_failed, main_exc, result>>

\* main.py:82: asyncio.run, once the loop has stopped, cancels every task that
\* is not done, runs them to their cancellation and closes the loop
Teardown ==
    /\ pc = "finished"
    /\ stopping
    /\ ntodo = 0
    /\ task' = [i \in DOMAIN task |->
                  IF task[i].state \in {"succeeded", "failed"} THEN task[i]
                  ELSE [task[i] EXCEPT !.state = "cancelled"]]
    /\ ready' = <<>>
    /\ pc' = "ended"
    /\ UNCHANGED <<ffmpeg_path, on_path, planVars, ntodo, stopping, outer,
                   nfinished, first_failed, main_exc, result>>

Next ==
    \/ EnsureFFmpeg
    \/ ReadConfig(MaxJobs, RunTimestamps)
    \/ FixIntervals
    \/ PlanClip
    \/ Gather
    \/ RunHandle
    \/ \E i \in 1..Len(tasks), ok \in BOOLEAN : ProcExit(i, ok)
    \/ Teardown

Spec == Init /\ [][Next]_vars

NextPlan ==
    \/ ReadConfig(MaxClips, Timestamps)
    \/ FixIntervals
    \/ PlanClip

SpecPlan == InitPlan /\ [][NextPlan]_vars

(***************************************************************************)
(* What the properties below speak of.                                     *)
(***************************************************************************)
Interval(cfg, k, i) == cfg[k].clip_ranges[i][2]
NClips(cfg, k) == Len(cfg[k].clip_ranges)

\* an interval of length 0 or of length 3 or more
BadInterval(interval) == Len(interval) = 0 \/ Len(interval) >= 3

HasBadInterval(cfg) ==
    \E k \in DOMAIN cfg : \E i \in 1..NClips(cfg, k) : BadInterval(Interval(cfg, k, i))

\* every clip of source k was declared with 1 or 2 (non-empty) timestamps
WellFormed(k) ==
    \A i \in 1..NClips(loaded, k) :
        /\ Len(Interval(loaded, k, i)) \in {1, 2}
        /\ \A j \in DOMAIN Interval(loaded, k, i) : Interval(loaded, k, i)[j] # ""

\* fix_intervals has returned for source k
Fixed(k) == k < src_idx \/ (k = src_idx /\ clip_idx >= 1)

\* the inner loop has appended the job of clip i of source k
Planned(k, i) == k < src_idx \/ (k = src_idx /\ clip_idx > i)

\* the jobs planned before those of source k
RECURSIVE Offset(_)
Offset(k) == IF k = 1 THEN 0 ELSE Offset(k - 1) + NClips(loaded, k - 1)

JobOf(k, i) == tasks[Offset(k) + i]

\* asyncio.gather was called
Launched == outer.state # "none"

AllAttempted == \A i \in DOMAIN task : task[i].attempted

\* the failure of job k has been delivered to gather
Delivered(k) == \A j \in DOMAIN ready : ready[j] # <<"done", k>>

(***************************************************************************)
(* C1: when some clip of some source has an interval of length 0 or of     *)
(* length 3 or more, main() never reaches the gather: no task exists, no   *)
(* tool invocation is started, and when the run is over it has raised;     *)
(* until then the planning loop always has a next clip or source to take.  *)
(***************************************************************************)
C1_BadIntervalStartsNothing ==
    HasBadInterval(loaded) =>
        /\ pc \in {"loop", "ended"}
        /\ task = <<>>
        /\ ~Launched
        /\ pc = "ended" => result = "raised"
        /\ pc = "loop" => ENABLED (FixIntervals \/ PlanClip)

\* the bad interval is in the second source, after the first source's job was planned
C1_Witness ==
    /\ pc = "ended"
    /\ result = "raised"
    /\ Len(loaded) = 2
    /\ ~HasBadInterval(<<loaded[1]>>)
    /\ HasBadInterval(<<loaded[2]>>)
    /\ Len(tasks) >= 1
    /\ task = <<>>

(***************************************************************************)
(* C2: the run does not end, and no job is cancelled, until every launched *)
(* job has completed or failed: when asyncio.run is over, every task has   *)
(* succeeded or failed.                                                    *)
(***************************************************************************)
C2_RunWaitsForAllJobs ==
    pc = "ended" => \A i \in DOMAIN task : task[i].state \in {"succeeded", "failed"}

(***************************************************************************)
(* C3: every job is attempted (its tool invocation is started) before the  *)
(* event loop waits for any process, before the completion of any job is   *)
(* delivered to gather, and so before main() resumes from the gather:      *)
(* whichever job fails and whenever it does, all the others are attempted. *)
(***************************************************************************)
C3_AllJobsAttempted ==
    /\ Launched => Len(task) = Len(tasks)
    /\ (pc = "gather" /\ ready = <<>>) => AllAttempted
    /\ pc \in {"finished", "ended"} => AllAttempted
    /\ \A k \in DOMAIN task :
        (task[k].state \in {"succeeded", "failed"} /\ Delivered(k)) => AllAttempted

\* the second of two jobs failed after its tool ran; the first was attempted
\* and is still running when the run is torn down
C3_Witness ==
    /\ pc = "ended"
    /\ result = "raised"
    /\ Len(task) = 2
    /\ task[2].state = "failed" /\ task[2].exe = WhichPath
    /\ task[1].state = "cancelled" /\ task[1].attempted

(***************************************************************************)
(* C4, as claimed: the run that reached the gather returns iff every job   *)
(* succeeded, no failed job is reported as built, and the failure of every *)
(* failed job is the one surfaced to the caller of main().                 *)
(***************************************************************************)
C4_EveryFailureSurfaced ==
    (pc = "ended" /\ Launched) =>
        /\ result = "returned" <=> \A i \in DOMAIN task : task[i].state = "succeeded"
        /\ \A i \in DOMAIN task :
            task[i].state = "failed" =>
                ~task[i].reported /\ result = "raised" /\ main_exc.job = i

(***************************************************************************)
(* C4, amended: the run that reached the gather returns iff every job      *)
(* succeeded; only a job that succeeded is reported as built; and when a   *)
(* job failed main() raises the exception of the first job that failed.    *)
(***************************************************************************)
C4_FirstFailureSurfaced ==
    /\ \A i \in DOMAIN task : task[i].reported => task[i].state = "succeeded"
    /\ (pc = "ended" /\ Launched) =>
        /\ result = "returned" <=> \A i \in DOMAIN task : task[i].state = "succeeded"
        /\ (\E i \in DOMAIN task : task[i].state = "failed") =>
            /\ result = "raised"
            /\ first_failed \in DOMAIN task
            /\ task[first_failed].state = "failed"
            /\ main_exc = TaskException(first_failed)

\* two jobs failed; the caller sees the first failure only
C4_Witness ==
    /\ pc = "ended"
    /\ Len(task) = 2
    /\ task[1].state = "failed" /\ task[2].state = "failed"
    /\ task[1].exe = WhichPath
    /\ result = "raised"
    /\ main_exc.job = 2

(***************************************************************************)
(* C5: for a source whose clips all have 1 or 2 timestamps, planning never *)
(* raises; after fix_intervals every clip but the last has two timestamps; *)
(* every job has 'ss'; and a job without 'to' is that of a last clip that  *)
(* was declared with a single timestamp.                                   *)
(***************************************************************************)
C5_StartAlwaysEndUnlessLastSingle ==
    \A k \in DOMAIN loaded :
        WellFormed(k) =>
            /\ ~(pc = "ended" /\ src_idx = k)
            /\ Fixed(k) =>
                \A i \in 1..NClips(config, k) :
                    /\ i < NClips(config, k) => Len(Interval(config, k, i)) = 2
                    /\ Len(Interval(config, k, i)) \in {1, 2}
            /\ \A i \in 1..NClips(loaded, k) :
                Planned(k, i) =>
                    /\ "ss" \in DOMAIN JobOf(k, i).config
                    /\ JobOf(k, i).config["ss"] # ""
                    /\ "to" \notin DOMAIN JobOf(k, i).config =>
                        /\ i = NClips(loaded, k)
                        /\ Len(Interval(loaded, k, i)) = 1

\* a source of three clips of one timestamp each, all planned, the last open-ended
C5_Witness ==
    /\ Len(loaded) >= 1
    /\ NClips(loaded, 1) = 3
    /\ \A i \in 1..3 : Len(Interval(loaded, 1, i)) = 1
    /\ src_idx = 2
    /\ Len(tasks) = 3
    /\ "to" \notin DOMAIN tasks[3].config
    /\ "to" \in DOMAIN tasks[2].config

(***************************************************************************)
(* C6: after fix_intervals, an in-between clip declared with the single    *)
(* timestamp t is (end of the resolved clip before it, t), that end being  *)
(* the last timestamp declared for the clip before it; a clip declared     *)
(* with two timestamps is unchanged; the sources fix_intervals was not     *)
(* called on are unchanged.                                                *)
(***************************************************************************)
C6_InteriorStartIsPreviousEnd ==
    /\ \A k \in DOMAIN loaded :
        Fixed(k) =>
            \A i \in 1..NClips(loaded, k) :
                /\ (1 < i /\ i < NClips(loaded, k) /\ Len(Interval(loaded, k, i)) = 1) =>
                    /\ Interval(config, k, i) =
                           <<Last(Interval(config, k, i - 1)), Interval(loaded, k, i)[1]>>
                    /\ Interval(config, k, i)[1] = Last(Interval(loaded, k, i - 1))
                /\ Len(Interval(loaded, k, i)) = 2 =>
                    Interval(config, k, i) = Interval(loaded, k, i)
    /\ \A k \in DOMAIN loaded : k > src_idx => config[k] = loaded[k]
    /\ \A k \in DOMAIN loaded : (pc = "loop" /\ k = src_idx /\ clip_idx = 0) => config[k] = loaded[k]

\* the second source has three single-timestamp clips; its in-between clip got
\* the first clip's own timestamp, which differs from every timestamp of the
\* first source
C6_Witness ==
    /\ Len(loaded) = 2
    /\ Fixed(2)
    /\ NClips(loaded, 1) = 1
    /\ Interval(loaded, 1, 1) = <<"00:00:05">>
    /\ NClips(loaded, 2) = 3
    /\ Interval(loaded, 2, 1) = <<"00:00:09">>
    /\ Interval(loaded, 2, 2) = <<"00:00:05">>
    /\ Interval(config, 2, 2) = <<"00:00:09", "00:00:05">>

(***************************************************************************)
(* C7: a source of exactly one clip declared with exactly one timestamp t1 *)
(* resolves to (00:00:00, t1), and its job has 'ss' = 00:00:00 and         *)
(* 'to' = t1.                                                              *)
(***************************************************************************)
C7_SingleClipFirstRuleWins ==
    \A k \in DOMAIN loaded :
        (NClips(loaded, k) = 1 /\ Len(Interval(loaded, k, 1)) = 1) =>
            /\ Fixed(k) => Interval(config, k, 1) = <<"00:00:00", Interval(loaded, k, 1)[1]>>
            /\ Planned(k, 1) =>
                /\ DOMAIN JobOf(k, 1).config = {"codec:v", "codec:a", "ss", "to"}
                /\ JobOf(k, 1).config["ss"] = "00:00:00"
                /\ JobOf(k, 1).config["to"] = Interval(loaded, k, 1)[1]

C7_Witness ==
    /\ Len(loaded) >= 1
    /\ NClips(loaded, 1) = 1
    /\ Interval(loaded, 1, 1) = <<"00:00:09">>
    /\ Planned(1, 1)
    /\ tasks[1].config["to"] = "00:00:09"

(***************************************************************************)
(* C8: the options of every job hold 'to' iff the resolved interval has an *)
(* end (two timestamps), and then 'to' is that end, never an empty value;  *)
(* 'codec:v' = 'copy', 'codec:a' = 'copy' and 'ss' = the start are always  *)
(* there, and nothing else is.                                             *)
(***************************************************************************)
C8_ToIffEnd ==
    \A k \in DOMAIN loaded :
        \A i \in 1..NClips(loaded, k) :
            Planned(k, i) =>
                LET options == JobOf(k, i).config
                    resolved == Interval(config, k, i)
                IN  /\ "to" \in DOMAIN options <=> Len(resolved) = 2
                    /\ Len(resolved) = 2 => options["to"] = resolved[2] /\ options["to"] # ""
                    /\ {"codec:v", "codec:a", "ss"} \subseteq DOMAIN options
                    /\ DOMAIN options \subseteq {"codec:v", "codec:a", "ss", "to"}
                    /\ options["codec:v"] = "copy"
                    /\ options["codec:a"] = "copy"
                    /\ options["ss"] = resolved[1]

\* an open-ended job: three options, no 'to'
C8_Witness ==
    /\ Len(tasks) = 2
    /\ DOMAIN tasks[2].config = {"codec:v", "codec:a", "ss"}
    /\ tasks[2].config["ss"] = "00:00:09"
    /\ "to" \in DOMAIN tasks[1].config

C10_JobsRunLocatedTool ==
    \A i \in DOMAIN task :
        task[i].attempted => (ffmpeg_path # "" /\ task[i].exe = ffmpeg_path)

====
